---- MODULE Spec2Model ----
(***************************************************************************)
(* Model of the reverse DNS cache (reverseDNSCache) and of the DNS traffic *)
(* snooper (SocketFilterSnooper) of pkg/ebpf.                              *)
(*                                                                         *)
(* Time is counted in ticks; TicksPerSec ticks make one second, so that    *)
(* time.Time.Unix(), which truncates to whole seconds, is not the          *)
(* identity.  Names are 1..NumNames, ordered as the strings they stand     *)
(* for.                                                                    *)
(***************************************************************************)
EXTENDS Integers, Sequences, FiniteSets, TLC

\* ---------------------------------------------------------------- bounds
NumNames == 2
MaxConns == 2
MaxClock == 4
MaxLookups == 2
TicksPerSec == 2
MaxTraffic == 2

\* cache parameters handed to newReverseDNSCache (scaled down)
size == 2
ttl == 2

\* one address more than the cache can hold
Addrs == 1..(size + 1)
Names == 1..NumNames

\* ---------------------------------------------------------------- state
VARIABLES
  data,       \* reverseDNSCache.data : map[util.Address]*dnsCacheVal
  len,        \* reverseDNSCache.len      (telemetry, atomic)
  lookups,    \* reverseDNSCache.lookups  (telemetry, atomic)
  resolved,   \* reverseDNSCache.resolved (telemetry, atomic)
  clock,      \* wall clock, in ticks (time.Now())
  op,         \* the call that has just completed: its arguments and its result
  before,     \* history: the map as it was when the call of op was made
  touchedAt,  \* history: the time of the last touch of each address
  tally,      \* history: what Get has counted and what Stats has given out
  packets,    \* history: the decoding errors made and what GetStats has given out
  \* the calls in progress on the cache, one of each kind
  sweep,      \* the goroutine of newReverseDNSCache: [pc, start, total]
  getCall,    \* a Get in progress: [pc, conns, now, names, lookups, resolved, k]
  statsCall,  \* a Stats past its first swap: [pc, lookups, resolved]
  \* SocketFilterSnooper
  exit,       \* SocketFilterSnooper.exit has been closed
  wg,         \* SocketFilterSnooper.wg
  closePc,    \* where SocketFilterSnooper.Close is
  pump,       \* the goroutine of pollPackets: [pc, read]
  poller,     \* the goroutine of pollStats: [pc, prev, cur]
  source,     \* packetSource: [closed, counts], counts the cumulative counters
  snoop,      \* packet telemetry: [counts, decodingErrors]
  afterClose, \* history: what was done on the capture source after it was closed
  \* the calls followed statement by statement
  getStats,   \* a GetStats in progress: [pc, stats]
  mux,        \* reverseDNSCache.mux is held
  addCall     \* an Add in progress: [pc, t, now, todo]

cacheVars == <<data, len, lookups, resolved>>

histVars == <<before, touchedAt, tally, packets>>

concVars == <<sweep, getCall, statsCall>>

snoopVars == <<exit, wg, closePc, pump, poller, source, snoop, afterClose>>

fineVars == <<getStats, mux, addCall>>

vars == <<data, len, lookups, resolved, clock, op, before, touchedAt, tally, packets,
          sweep, getCall, statsCall,
          exit, wg, closePc, pump, poller, source, snoop, afterClose,
          getStats, mux, addCall>>

\* ---------------------------------------------------------------- values
\* a nil *translation
NilT == [name |-> 0, ips |-> {}]

Translations == [name : Names, ips : SUBSET Addrs]

\* ConnectionStats, reduced to the two fields the cache reads
Conns == [Source : Addrs, Dest : Addrs]

ConnSeqs == UNION {[1..n -> Conns] : n \in 0..MaxConns}

\* the batches of at most one connection
OneConn == {<<>>} \cup {<<c>> : c \in Conns}

\* the translations of one name
TranslationsOf(n) == [name : {n}, ips : SUBSET Addrs]

\* a nil []string
NilNames == [found |-> FALSE, names |-> <<>>]

NoStats == [lookups |-> 0, resolved |-> 0, len |-> 0]

\* the four counters of the capture source, all zero
NoCounts == [polls |-> 0, processed |-> 0, captured |-> 0, dropped |-> 0]

\* the packet telemetry of the snooper, all zero
NoPackets == [counts |-> NoCounts, decodingErrors |-> 0]

NoOp == [kind |-> "none", t |-> NilT, conns |-> <<>>, now |-> 0, ret |-> FALSE,
         touched |-> {}, names |-> <<>>, stats |-> NoStats, packets |-> NoPackets]

NoGet == [pc |-> "idle", conns |-> <<>>, now |-> 0, names |-> <<>>,
          lookups |-> 0, resolved |-> 0, k |-> 0]

NoStatsCall == [pc |-> "idle", lookups |-> 0, resolved |-> 0]

NoGetStats == [pc |-> "idle", cache |-> NoStats, packets |-> NoPackets]

NoAdd == [pc |-> "idle", t |-> NilT, now |-> 0, todo |-> {}]

NoTally == [conns |-> 0, hits |-> 0, lookups |-> 0, resolved |-> 0]

\* time.Time.Unix(): whole seconds, rounded down
Unix(t) == t \div TicksPerSec

\* ------------------------------------------------------------ dnsCacheVal
\* sort.Search over the predicate names[h] >= name
RECURSIVE SearchLoop(_, _, _, _)
SearchLoop(names, name, i, j) ==
  IF i < j
  THEN LET h == (i + j) \div 2
       IN  IF ~(names[h + 1] >= name)
           THEN SearchLoop(names, name, h + 1, j)
           ELSE SearchLoop(names, name, i, h)
  ELSE i

SearchStrings(names, name) == SearchLoop(names, name, 0, Len(names))

RECURSIVE InsertSorted(_, _)
InsertSorted(s, x) ==
  IF s = <<>> THEN <<x>>
  ELSE IF x <= Head(s) THEN <<x>> \o s
  ELSE <<Head(s)>> \o InsertSorted(Tail(s), x)

\* sort.Strings
RECURSIVE SortStrings(_)
SortStrings(s) ==
  IF s = <<>> THEN <<>>
  ELSE InsertSorted(SortStrings(Tail(s)), Head(s))

merge_AlwaysAppend(names, name) == SortStrings(Append(names, name))

\* dnsCacheVal.merge
merge(names, name) ==
  IF SearchStrings(names, name) < Len(names)
  THEN names
  ELSE SortStrings(Append(names, name))

\* dnsCacheVal.copy
copy(val) == [found |-> TRUE, names |-> [i \in 1..Len(val.names) |-> val.names[i]]]

\* ------------------------------------------------------- reverseDNSCache
\* the capacity test at the head of Add
AtCapacity(d) == Cardinality(DOMAIN d) >= size

\* the loop of Add over translation.ips; every address is handled on its
\* own, so the map's iteration order does not show in the result
AddLoop(d, t, exp) ==
  [a \in DOMAIN d \cup t.ips |->
     IF a \in t.ips
     THEN IF a \in DOMAIN d
          THEN [names |-> merge(d[a].names, t.name), expiration |-> exp]
          ELSE [names |-> <<t.name>>, expiration |-> exp]
     ELSE d[a]]

getNamesForIP_NoTouch(d, ip, expiration) ==
  IF ip \notin DOMAIN d
  THEN [data |-> d, names |-> NilNames]
  ELSE [data |-> d, names |-> copy(d[ip])]

\* reverseDNSCache.getNamesForIP: the map after the call and the names returned
getNamesForIP(d, ip, expiration) ==
  IF ip \notin DOMAIN d
  THEN [data |-> d, names |-> NilNames]
  ELSE [data |-> [d EXCEPT ![ip].expiration = expiration],
        names |-> copy(d[ip])]

RECURSIVE GetLoop_CountSource(_, _, _, _, _, _)
GetLoop_CountSource(d, conns, i, expiration, names, res) ==
  IF i > Len(conns)
  THEN [data |-> d, names |-> names, resolved |-> res]
  ELSE LET s  == getNamesForIP(d, conns[i].Source, expiration)
           dd == getNamesForIP(s.data, conns[i].Dest, expiration)
           pair == [Source |-> s.names, Dest |-> dd.names]
       IN  GetLoop_CountSource(dd.data, conns, i + 1, expiration,
                               [names EXCEPT ![i] = pair],
                               IF dd.names # NilNames \/ s.names # NilNames
                               THEN res + 1 ELSE res)

\* the loop of Get over conns, from index i on
RECURSIVE GetLoop(_, _, _, _, _, _)
GetLoop(d, conns, i, expiration, names, res) ==
  IF i > Len(conns)
  THEN [data |-> d, names |-> names, resolved |-> res]
  ELSE LET s  == getNamesForIP(d, conns[i].Source, expiration)
           dd == getNamesForIP(s.data, conns[i].Dest, expiration)
           pair == [Source |-> s.names, Dest |-> dd.names]
       IN  GetLoop(dd.data, conns, i + 1, expiration,
                   [names EXCEPT ![i] = pair],
                   IF dd.names # NilNames THEN res + 1 ELSE res)

GetLocked_Reversed(d, conns, now) ==
  LET r == GetLoop(d, conns, 1, Unix(now + ttl),
                   [i \in 1..Len(conns) |-> [Source |-> NilNames, Dest |-> NilNames]], 0)
  IN  [r EXCEPT !.names = [i \in 1..Len(conns) |-> r.names[Len(conns) + 1 - i]]]

\* the part of Get that runs under the lock
GetLocked(d, conns, now) ==
  GetLoop(d, conns, 1, Unix(now + ttl),
          [i \in 1..Len(conns) |-> [Source |-> NilNames, Dest |-> NilNames]], 0)

Expired_Strict(val, deadline) == ~(val.expiration >= deadline)

\* the test of expire's loop: the entry is kept when expiration > deadline
Expired(val, deadline) == ~(val.expiration > deadline)

ExpireLocked_Refresh(d, start) ==
  LET deadline == Unix(start - ttl)
      keep == {a \in DOMAIN d : ~Expired(d[a], deadline)}
  IN  [a \in keep |-> [d[a] EXCEPT !.expiration = Unix(start + ttl)]]

\* the part of expire that runs under the lock
ExpireLocked(d, start) ==
  LET deadline == Unix(start - ttl)
      keep == {a \in DOMAIN d : ~Expired(d[a], deadline)}
  IN  [a \in keep |-> d[a]]

\* ---------------------------------------------------------------- actions
Init ==
  /\ data = <<>>
  /\ len = 0
  /\ lookups = 0
  /\ resolved = 0
  /\ clock = 0
  /\ op = NoOp
  /\ before = <<>>
  /\ touchedAt = <<>>
  /\ sweep = [pc |-> "select", start |-> 0, total |-> 0]
  /\ getCall = NoGet
  /\ statsCall = NoStatsCall
  /\ exit = FALSE
  /\ wg = 2
  /\ closePc = "open"
  /\ pump = [pc |-> "read", read |-> "none"]
  /\ poller = [pc |-> "select", prev |-> NoCounts, cur |-> NoCounts]
  /\ source = [closed |-> FALSE, counts |-> NoCounts]
  /\ snoop = [counts |-> NoCounts, decodingErrors |-> 0]
  /\ afterClose = {}
  /\ tally = NoTally
  /\ packets = [errors |-> 0, reported |-> NoPackets]
  /\ getStats = NoGetStats
  /\ mux = FALSE
  /\ addCall = NoAdd

\* no call is returning
Idle == op = NoOp

\* reverseDNSCache.Add(translation, now)
Add(t, now) ==
  /\ IF t = NilT
     THEN /\ UNCHANGED <<data, len>>
          /\ op' = [NoOp EXCEPT !.kind = "Add", !.t = t, !.now = now]
     ELSE IF AtCapacity(data)
     THEN /\ UNCHANGED <<data, len>>
          /\ op' = [NoOp EXCEPT !.kind = "Add", !.t = t, !.now = now]
     ELSE /\ data' = AddLoop(data, t, Unix(now + ttl))
          /\ len' = Cardinality(DOMAIN data')
          /\ op' = [NoOp EXCEPT !.kind = "Add", !.t = t, !.now = now,
                                !.ret = TRUE, !.touched = t.ips]
  /\ UNCHANGED <<lookups, resolved>>

\* reverseDNSCache.Get(conns, now)
Get(conns, now) ==
  /\ lookups + Len(conns) <= MaxLookups
  /\ IF Len(conns) = 0
     THEN /\ UNCHANGED <<data, lookups, resolved>>
          /\ op' = [NoOp EXCEPT !.kind = "Get", !.now = now]
     ELSE LET r == GetLocked(data, conns, now)
          IN  /\ data' = r.data
              /\ lookups' = lookups + Len(conns)
              /\ resolved' = resolved + r.resolved
              /\ op' = [NoOp EXCEPT !.kind = "Get", !.conns = conns, !.now = now,
                                    !.names = r.names]
  /\ UNCHANGED len

Stats_NoReset ==
  /\ op' = [NoOp EXCEPT !.kind = "Stats",
                        !.stats = [lookups |-> lookups, resolved |-> resolved, len |-> len]]
  /\ UNCHANGED <<data, len, lookups, resolved>>

\* reverseDNSCache.Stats()
Stats ==
  /\ lookups' = 0
  /\ resolved' = 0
  /\ op' = [NoOp EXCEPT !.kind = "Stats",
                        !.stats = [lookups |-> lookups, resolved |-> resolved, len |-> len]]
  /\ UNCHANGED <<data, len>>

\* reverseDNSCache.expire(), called by the ticker of newReverseDNSCache
expire(start) ==
  /\ data' = ExpireLocked(data, start)
  /\ len' = Cardinality(DOMAIN data')
  /\ op' = [NoOp EXCEPT !.kind = "expire", !.now = start]
  /\ UNCHANGED <<lookups, resolved>>

\* the call returns to its caller, which takes the result
Return ==
  /\ op # NoOp
  /\ op' = NoOp
  /\ UNCHANGED cacheVars

\* time passes
Tick ==
  /\ clock < MaxClock
  /\ clock' = clock + 1

\* history: the addresses in S have been touched now
Touch(S) ==
  touchedAt' = [a \in DOMAIN touchedAt \cup S |-> IF a \in S THEN clock ELSE touchedAt[a]]

\* the addresses of a batch of connections
AddrsOf(conns) ==
  {conns[i].Source : i \in 1..Len(conns)} \cup {conns[i].Dest : i \in 1..Len(conns)}

\* ------------------------------------------------------------------------
\* One caller at a time: a call runs to its end, then returns.

\* call A is made and completes
Call(A) ==
  /\ Idle
  /\ A
  /\ before' = data
  /\ UNCHANGED <<clock, concVars, snoopVars, fineVars>>

SeqReturn ==
  /\ Return
  /\ before' = <<>>
  /\ UNCHANGED <<clock, touchedAt, tally, packets, concVars, snoopVars, fineVars>>

SeqTick == Idle /\ Tick /\ UNCHANGED <<cacheVars, op, histVars, concVars, snoopVars, fineVars>>

\* Spec: any translation, batches of at most one connection
Next ==
  \/ SeqReturn
  \/ \E t \in Translations \cup {NilT} : Call(Add(t, clock)) /\ UNCHANGED <<touchedAt, tally, packets>>
  \/ \E conns \in OneConn : Call(Get(conns, clock)) /\ UNCHANGED <<touchedAt, tally, packets>>
  \/ Call(Stats) /\ UNCHANGED <<touchedAt, tally, packets>>
  \/ Call(expire(clock)) /\ UNCHANGED <<touchedAt, tally, packets>>
  \/ SeqTick

Spec == Init /\ [][Next]_vars

\* SpecGet: translations of one name, batches of up to MaxConns connections
NextGet ==
  \/ SeqReturn
  \/ \E t \in TranslationsOf(1) \cup {NilT} : Call(Add(t, clock)) /\ UNCHANGED <<touchedAt, tally, packets>>
  \/ \E conns \in ConnSeqs : Call(Get(conns, clock)) /\ UNCHANGED <<touchedAt, tally, packets>>
  \/ Call(Stats) /\ UNCHANGED <<touchedAt, tally, packets>>
  \/ Call(expire(clock)) /\ UNCHANGED <<touchedAt, tally, packets>>
  \/ SeqTick

SpecGet == Init /\ [][NextGet]_vars

\* SpecSweep: translations of one name, batches of at most one connection,
\* with the history of the touches
NextSweep ==
  \/ SeqReturn
  \/ \E t \in TranslationsOf(1) \cup {NilT} : Call(Add(t, clock)) /\ Touch(op'.touched) /\ UNCHANGED <<tally, packets>>
  \/ \E conns \in OneConn :
       Call(Get(conns, clock)) /\ Touch(AddrsOf(conns) \cap DOMAIN data)
         /\ UNCHANGED <<tally, packets>>
  \/ Call(Stats) /\ UNCHANGED <<touchedAt, tally, packets>>
  \/ Call(expire(clock)) /\ UNCHANGED <<touchedAt, tally, packets>>
  \/ SeqTick

SpecSweep == Init /\ [][NextSweep]_vars

\* the connections of a batch whose destination is a key of map d
DestHits(d, conns) == Cardinality({i \in 1..Len(conns) : conns[i].Dest \in DOMAIN d})

\* SpecTelemetry: translations of one name, batches of up to MaxConns
\* connections, at most MaxLookups connections in all, with the history of
\* what was passed to Get and of what Stats has returned
NextTelemetry ==
  \/ SeqReturn
  \/ \E t \in TranslationsOf(1) \cup {NilT} :
       Call(Add(t, clock)) /\ UNCHANGED <<touchedAt, tally, packets>>
  \/ \E conns \in ConnSeqs :
       /\ tally.conns + Len(conns) <= MaxLookups
       /\ Call(Get(conns, clock))
       /\ tally' = [tally EXCEPT !.conns = @ + Len(conns),
                                 !.hits = @ + DestHits(data, conns)]
       /\ UNCHANGED <<touchedAt, packets>>
  \/ /\ Call(Stats)
     /\ tally' = [tally EXCEPT !.lookups = @ + op'.stats.lookups,
                               !.resolved = @ + op'.stats.resolved]
     /\ UNCHANGED <<touchedAt, packets>>

SpecTelemetry == Init /\ [][NextTelemetry]_vars

\* ------------------------------------------------------------------------
\* SpecConc: the cache under concurrent callers.  The steps are the parts of
\* each call between two synchronisations: a section under c.mux is one step,
\* each atomic operation on a telemetry counter is one step.  op is the call
\* that the last step completed.

\* the ticker of newReverseDNSCache fires and expire() reads the clock
SweepStart ==
  /\ sweep.pc = "select"
  /\ sweep' = [pc |-> "lock", start |-> clock, total |-> 0]
  /\ op' = NoOp
  /\ UNCHANGED cacheVars

\* expire(): the part under the lock
SweepLocked ==
  /\ sweep.pc = "lock"
  /\ data' = ExpireLocked(data, sweep.start)
  /\ sweep' = [sweep EXCEPT !.pc = "store", !.total = Cardinality(DOMAIN data')]
  /\ op' = NoOp
  /\ UNCHANGED <<len, lookups, resolved>>

\* expire(): atomic.StoreInt64(&c.len, total), after the lock is released
SweepStore ==
  /\ sweep.pc = "store"
  /\ len' = sweep.total
  /\ sweep' = [pc |-> "select", start |-> 0, total |-> 0]
  /\ op' = [NoOp EXCEPT !.kind = "expire", !.now = sweep.start]
  /\ UNCHANGED <<data, lookups, resolved>>

\* Get(conns, now) up to c.mux.Unlock()
GetStart(conns, now) ==
  /\ getCall.pc = "idle"
  /\ lookups + Len(conns) <= MaxLookups
  /\ IF Len(conns) = 0
     THEN /\ op' = [NoOp EXCEPT !.kind = "Get", !.now = now]
          /\ UNCHANGED <<data, getCall>>
     ELSE LET r == GetLocked(data, conns, now)
          IN  /\ data' = r.data
              /\ getCall' = [pc |-> "lookups", conns |-> conns, now |-> now,
                             names |-> r.names,
                             lookups |-> Len(conns), resolved |-> r.resolved, k |-> 0]
              /\ op' = NoOp
  /\ UNCHANGED <<len, lookups, resolved>>

\* Get: atomic.AddInt64(&c.lookups, int64(lookups))
GetAddLookups ==
  /\ getCall.pc = "lookups"
  /\ lookups' = lookups + getCall.lookups
  /\ getCall' = [getCall EXCEPT !.pc = "resolved"]
  /\ op' = NoOp
  /\ UNCHANGED <<data, len, resolved>>

\* Get: atomic.AddInt64(&c.resolved, int64(resolved)) and return names
GetAddResolved ==
  /\ getCall.pc = "resolved"
  /\ resolved' = resolved + getCall.resolved
  /\ getCall' = NoGet
  /\ op' = [NoOp EXCEPT !.kind = "Get", !.conns = getCall.conns, !.now = getCall.now,
                        !.names = getCall.names]
  /\ UNCHANGED <<data, len, lookups>>

\* Stats: atomic.SwapInt64(&c.lookups, 0)
StatsSwapLookups ==
  /\ statsCall.pc = "idle"
  /\ statsCall' = [pc |-> "resolved", lookups |-> lookups, resolved |-> 0]
  /\ lookups' = 0
  /\ op' = NoOp
  /\ UNCHANGED <<data, len, resolved>>

\* Stats: atomic.SwapInt64(&c.resolved, 0)
StatsSwapResolved ==
  /\ statsCall.pc = "resolved"
  /\ statsCall' = [statsCall EXCEPT !.pc = "len", !.resolved = resolved]
  /\ resolved' = 0
  /\ op' = NoOp
  /\ UNCHANGED <<data, len, lookups>>

\* Stats: c.Len() and return
StatsLoadLen ==
  /\ statsCall.pc = "len"
  /\ op' = [NoOp EXCEPT !.kind = "Stats",
                        !.stats = [lookups |-> statsCall.lookups,
                                   resolved |-> statsCall.resolved, len |-> len]]
  /\ statsCall' = NoStatsCall
  /\ UNCHANGED cacheVars

\* what the concurrent callers pass: one translation of one address, and
\* the empty batch or one connection from another address to that address
ConcTranslations == {[name |-> 1, ips |-> {1}], NilT}

ConcConns == {<<>>, <<[Source |-> 2, Dest |-> 1]>>}

NextConc ==
  \/ \E t \in ConcTranslations :
       Add(t, clock) /\ UNCHANGED <<clock, histVars, concVars, snoopVars, fineVars>>
  \/ \E conns \in ConcConns :
       GetStart(conns, clock)
         /\ UNCHANGED <<clock, histVars, sweep, statsCall, snoopVars, fineVars>>
  \/ GetAddLookups /\ UNCHANGED <<clock, histVars, sweep, statsCall, snoopVars, fineVars>>
  \/ GetAddResolved /\ UNCHANGED <<clock, histVars, sweep, statsCall, snoopVars, fineVars>>
  \/ StatsSwapLookups /\ UNCHANGED <<clock, histVars, sweep, getCall, snoopVars, fineVars>>
  \/ StatsSwapResolved /\ UNCHANGED <<clock, histVars, sweep, getCall, snoopVars, fineVars>>
  \/ StatsLoadLen /\ UNCHANGED <<clock, histVars, sweep, getCall, snoopVars, fineVars>>
  \/ SweepStart /\ UNCHANGED <<clock, histVars, getCall, statsCall, snoopVars, fineVars>>
  \/ SweepLocked /\ UNCHANGED <<clock, histVars, getCall, statsCall, snoopVars, fineVars>>
  \/ SweepStore /\ UNCHANGED <<clock, histVars, getCall, statsCall, snoopVars, fineVars>>
  \/ Tick /\ op' = NoOp /\ UNCHANGED <<cacheVars, histVars, concVars, snoopVars, fineVars>>

SpecConc == Init /\ [][NextConc]_vars

\* ------------------------------------------------------------------------
\* SpecSnooper: SocketFilterSnooper with its two goroutines, the sweep of its
\* cache and one call of Close.  op is the call that the last step completed.
\* The clock stands still: what the snooper does with its goroutines and
\* counters does not depend on the time of day.

\* the counters of the capture source grow: a poll, a packet handed to the
\* program, a packet captured or a packet dropped by the kernel
Traffic ==
  /\ ~source.closed
  /\ source.counts.polls + source.counts.processed
       + source.counts.captured + source.counts.dropped < MaxTraffic
  /\ \E c \in DOMAIN source.counts :
       source' = [source EXCEPT !.counts[c] = @ + 1]

\* history: event e is on the capture source; was the source closed already?
OnSource(e) ==
  afterClose' = IF source.closed THEN afterClose \cup {e} ELSE afterClose

\* pollPackets: s.source.ZeroCopyReadPacketData() returns
PumpRead ==
  /\ pump.pc = "read"
  /\ \E r \in {"data", "eagain", "err"} : pump' = [pc |-> "select", read |-> r]
  /\ OnSource("read")
  /\ op' = NoOp
  /\ UNCHANGED <<cacheVars, sweep, exit, wg, closePc, poller, source, snoop>>

PumpSelect_IgnoreExit ==
  /\ pump.pc = "select"
  /\ pump' = [pump EXCEPT !.pc = IF pump.read = "data" THEN "process"
                                 ELSE IF pump.read = "eagain" THEN "read"
                                 ELSE "sleep"]
  /\ op' = NoOp
  /\ UNCHANGED <<cacheVars, sweep, exit, wg, closePc, poller, source, snoop, afterClose>>

\* pollPackets: the select on s.exit, then the branch on err
PumpSelect ==
  /\ pump.pc = "select"
  /\ pump' = [pump EXCEPT !.pc = IF exit THEN "exit"
                                 ELSE IF pump.read = "data" THEN "process"
                                 ELSE IF pump.read = "eagain" THEN "read"
                                 ELSE "sleep"]
  /\ op' = NoOp
  /\ UNCHANGED <<cacheVars, sweep, exit, wg, closePc, poller, source, snoop, afterClose>>

\* processPacket(data): s.parser.Parse gives translation t, or nil
PumpProcess(t) ==
  /\ pump.pc = "process"
  /\ pump' = [pump EXCEPT !.pc = "read"]
  /\ IF t = NilT
     THEN /\ snoop.decodingErrors < MaxTraffic
          /\ snoop' = [snoop EXCEPT !.decodingErrors = @ + 1]
          /\ op' = NoOp
          /\ UNCHANGED <<cacheVars, afterClose>>
     ELSE /\ Add(t, clock)
          /\ OnSource("add")
          /\ UNCHANGED snoop
  /\ UNCHANGED <<sweep, exit, wg, closePc, poller, source>>

PumpSleep_Fatal ==
  /\ pump.pc = "sleep"
  /\ pump' = [pump EXCEPT !.pc = "exit"]
  /\ op' = NoOp
  /\ UNCHANGED <<cacheVars, sweep, exit, wg, closePc, poller, source, snoop, afterClose>>

\* pollPackets: time.Sleep(5 * time.Millisecond)
PumpSleep ==
  /\ pump.pc = "sleep"
  /\ pump' = [pump EXCEPT !.pc = "read"]
  /\ op' = NoOp
  /\ UNCHANGED <<cacheVars, sweep, exit, wg, closePc, poller, source, snoop, afterClose>>

\* pollPackets has returned: snooper.wg.Done()
PumpDone ==
  /\ pump.pc = "exit"
  /\ pump' = [pump EXCEPT !.pc = "done"]
  /\ wg' = wg - 1
  /\ op' = NoOp
  /\ UNCHANGED <<cacheVars, sweep, exit, closePc, poller, source, snoop, afterClose>>

\* the difference of two samples, counter by counter
Delta(now, prev) == [c \in DOMAIN now |-> now[c] - prev[c]]

Plus(a, b) == [c \in DOMAIN a |-> a[c] + b[c]]

\* pollStats: the ticker fires; the sample fails (err) or is accumulated
PollTick(err) ==
  /\ poller.pc = "select"
  /\ IF err
     THEN UNCHANGED <<poller, snoop>>
     ELSE /\ snoop' = [snoop EXCEPT !.counts = Plus(@, Delta(source.counts, poller.prev))]
          /\ poller' = [poller EXCEPT !.prev = source.counts]
  /\ OnSource("stats")
  /\ op' = NoOp
  /\ UNCHANGED <<cacheVars, sweep, exit, wg, closePc, pump, source>>

\* pollStats: the select takes <-s.exit
PollExit ==
  /\ poller.pc = "select"
  /\ exit
  /\ poller' = [poller EXCEPT !.pc = "exit"]
  /\ op' = NoOp
  /\ UNCHANGED <<cacheVars, sweep, exit, wg, closePc, pump, source, snoop, afterClose>>

\* pollStats has returned: snooper.wg.Done()
PollDone ==
  /\ poller.pc = "exit"
  /\ poller' = [poller EXCEPT !.pc = "done"]
  /\ wg' = wg - 1
  /\ op' = NoOp
  /\ UNCHANGED <<cacheVars, sweep, exit, closePc, pump, source, snoop, afterClose>>

\* Close: close(s.exit)
CloseSignal ==
  /\ closePc = "open"
  /\ exit' = TRUE
  /\ closePc' = "wait"
  /\ op' = NoOp
  /\ UNCHANGED <<cacheVars, sweep, wg, pump, poller, source, snoop, afterClose>>

CloseWait_NoWait ==
  /\ closePc = "wait"
  /\ closePc' = "source"
  /\ op' = NoOp
  /\ UNCHANGED <<cacheVars, sweep, exit, wg, pump, poller, source, snoop, afterClose>>

\* Close: s.wg.Wait() returns
CloseWait ==
  /\ closePc = "wait"
  /\ wg = 0
  /\ closePc' = "source"
  /\ op' = NoOp
  /\ UNCHANGED <<cacheVars, sweep, exit, wg, pump, poller, source, snoop, afterClose>>

\* Close: s.source.Close()
CloseSource ==
  /\ closePc = "source"
  /\ source' = [source EXCEPT !.closed = TRUE]
  /\ closePc' = "cache"
  /\ op' = NoOp
  /\ UNCHANGED <<cacheVars, sweep, exit, wg, pump, poller, snoop, afterClose>>

\* Close: s.cache.Close(), the send on c.exit, taken by the select of the
\* cache's goroutine, which returns
CloseCache_SweepGoesOn ==
  /\ closePc = "cache"
  /\ sweep.pc = "select"
  /\ closePc' = "done"
  /\ op' = NoOp
  /\ UNCHANGED <<cacheVars, sweep, exit, wg, pump, poller, source, snoop, afterClose>>

CloseCache ==
  /\ closePc = "cache"
  /\ sweep.pc = "select"
  /\ sweep' = [sweep EXCEPT !.pc = "done"]
  /\ closePc' = "done"
  /\ op' = NoOp
  /\ UNCHANGED <<cacheVars, exit, wg, pump, poller, source, snoop, afterClose>>

\* what the parser makes of a packet
Parsed == ConcTranslations

\* a caller of the cache alone calls c.Close(): it is at the send on c.exit
CacheCloseCall ==
  /\ closePc = "open"
  /\ closePc' = "cache"
  /\ op' = NoOp
  /\ UNCHANGED <<cacheVars, sweep, exit, wg, pump, poller, source, snoop, afterClose>>

NextSnooper ==
  \/ Traffic /\ op' = NoOp
       /\ UNCHANGED <<cacheVars, clock, histVars, concVars,
                      exit, wg, closePc, pump, poller, snoop, afterClose, fineVars>>
  \/ PumpRead /\ UNCHANGED <<clock, histVars, getCall, statsCall, fineVars>>
  \/ PumpSelect /\ UNCHANGED <<clock, histVars, getCall, statsCall, fineVars>>
  \/ \E t \in Parsed : PumpProcess(t) /\ UNCHANGED <<clock, histVars, getCall, statsCall, fineVars>>
  \/ PumpSleep /\ UNCHANGED <<clock, histVars, getCall, statsCall, fineVars>>
  \/ PumpDone /\ UNCHANGED <<clock, histVars, getCall, statsCall, fineVars>>
  \/ \E err \in BOOLEAN : PollTick(err) /\ UNCHANGED <<clock, histVars, getCall, statsCall, fineVars>>
  \/ PollExit /\ UNCHANGED <<clock, histVars, getCall, statsCall, fineVars>>
  \/ PollDone /\ UNCHANGED <<clock, histVars, getCall, statsCall, fineVars>>
  \/ CloseSignal /\ UNCHANGED <<clock, histVars, getCall, statsCall, fineVars>>
  \/ CloseWait /\ UNCHANGED <<clock, histVars, getCall, statsCall, fineVars>>
  \/ CloseSource /\ UNCHANGED <<clock, histVars, getCall, statsCall, fineVars>>
  \/ CloseCache /\ UNCHANGED <<clock, histVars, getCall, statsCall, fineVars>>
  \/ SweepStart /\ UNCHANGED <<clock, histVars, getCall, statsCall, snoopVars, fineVars>>
  \/ SweepLocked /\ UNCHANGED <<clock, histVars, getCall, statsCall, snoopVars, fineVars>>
  \/ SweepStore /\ UNCHANGED <<clock, histVars, getCall, statsCall, snoopVars, fineVars>>

SpecSnooper == Init /\ [][NextSnooper]_vars

\* SpecShutdown: SpecSnooper with the scheduling that the runtime gives.  A
\* goroutine that can take a step takes it; a read of the capture source
\* returns (the poll timeout); the ticker of the cache leaves the select of
\* its goroutine free between two sweeps, so the send of cache.Close(), which
\* is enabled whenever no sweep is running, is taken in the end.
OfSnooper(A) == A /\ UNCHANGED <<clock, histVars, getCall, statsCall, fineVars>>

OfSweep(A) == A /\ UNCHANGED <<clock, histVars, getCall, statsCall, snoopVars, fineVars>>

SpecShutdown ==
  /\ Init
  /\ [][NextSnooper]_vars
  /\ WF_vars(OfSnooper(PumpRead))
  /\ WF_vars(OfSnooper(PumpSelect))
  /\ WF_vars(\E t \in Parsed : OfSnooper(PumpProcess(t)))
  /\ WF_vars(OfSnooper(PumpSleep))
  /\ WF_vars(OfSnooper(PumpDone))
  /\ WF_vars(OfSnooper(PollExit))
  /\ WF_vars(OfSnooper(PollDone))
  /\ WF_vars(OfSnooper(CloseWait))
  /\ WF_vars(OfSnooper(CloseSource))
  /\ SF_vars(OfSnooper(CloseCache))
  /\ WF_vars(OfSweep(SweepLocked))
  /\ WF_vars(OfSweep(SweepStore))

\* ------------------------------------------------------------------------
\* SpecLock: the cache with c.mux as a variable.  Lock() and Unlock() are
\* steps of their own, and Get goes through its batch one address at a time:
\* the lookup in the map is one step, the write of the expiration of the
\* entry found is the next.  The bodies of Add and of expire are one step
\* each, between their Lock() and their Unlock().

\* Add: translation is not nil, c.mux.Lock()
AddLock(t, now) ==
  /\ addCall.pc = "idle"
  /\ t # NilT
  /\ ~mux
  /\ mux' = TRUE
  /\ addCall' = [NoAdd EXCEPT !.pc = "locked", !.t = t, !.now = now]
  /\ op' = NoOp
  /\ UNCHANGED <<cacheVars, before, sweep, getCall>>

\* Add: from the capacity test to the store of c.len
AddBody ==
  /\ addCall.pc = "locked"
  /\ Add(addCall.t, addCall.now)
  /\ addCall' = [addCall EXCEPT !.pc = "unlock"]
  /\ UNCHANGED <<before, sweep, getCall, mux>>

\* Add: the deferred c.mux.Unlock()
AddUnlock ==
  /\ addCall.pc = "unlock"
  /\ mux' = FALSE
  /\ addCall' = NoAdd
  /\ op' = NoOp
  /\ UNCHANGED <<cacheVars, before, sweep, getCall>>

\* Get: conns is not empty, c.mux.Lock()
GetLock(conns, now) ==
  /\ getCall.pc = "idle"
  /\ lookups + Len(conns) <= MaxLookups
  /\ Len(conns) > 0
  /\ ~mux
  /\ mux' = TRUE
  /\ getCall' = [NoGet EXCEPT
                   !.pc = "find", !.conns = conns, !.now = now, !.k = 1,
                   !.lookups = Len(conns),
                   !.names = [i \in 1..Len(conns) |->
                                [Source |-> NilNames, Dest |-> NilNames]]]
  /\ before' = data
  /\ op' = NoOp
  /\ UNCHANGED <<cacheVars, sweep, addCall>>

\* the k-th address of the loop of Get: source, destination, source, ...
AddrAt(conns, k) ==
  IF k % 2 = 1 THEN conns[(k + 1) \div 2].Source ELSE conns[(k + 1) \div 2].Dest

\* the Get in progress goes to its next address, or to c.mux.Unlock()
GetAdvance(g) ==
  [g EXCEPT !.k = @ + 1, !.pc = IF g.k = 2 * Len(g.conns) THEN "unlock" ELSE "find"]

GetFind_Unlocked ==
  /\ getCall.pc = "find"
  /\ getCall' = IF AddrAt(getCall.conns, getCall.k) \in DOMAIN data
                THEN [getCall EXCEPT !.pc = "touch"]
                ELSE GetAdvance(getCall)
  /\ mux' = FALSE
  /\ op' = NoOp
  /\ UNCHANGED <<cacheVars, before, sweep, addCall>>

\* getNamesForIP: val, ok := c.data[ip]; nil is returned if !ok
GetFind ==
  /\ getCall.pc = "find"
  /\ getCall' = IF AddrAt(getCall.conns, getCall.k) \in DOMAIN data
                THEN [getCall EXCEPT !.pc = "touch"]
                ELSE GetAdvance(getCall)
  /\ op' = NoOp
  /\ UNCHANGED <<cacheVars, before, sweep, addCall, mux>>

\* getNamesForIP: val.expiration = expiration; return val.copy(); and
\* resolved++ in Get if the address is a destination
GetTouch ==
  /\ getCall.pc = "touch"
  /\ LET k == getCall.k
         i == (k + 1) \div 2
         r == getNamesForIP(data, AddrAt(getCall.conns, k), Unix(getCall.now + ttl))
     IN  /\ data' = r.data
         /\ getCall' = GetAdvance(
                         IF k % 2 = 1
                         THEN [getCall EXCEPT !.names[i].Source = r.names]
                         ELSE [getCall EXCEPT !.names[i].Dest = r.names,
                                              !.resolved = IF r.names # NilNames
                                                           THEN @ + 1 ELSE @])
  /\ op' = NoOp
  /\ UNCHANGED <<len, lookups, resolved, before, sweep, addCall, mux>>

\* Get: c.mux.Unlock()
GetUnlock ==
  /\ getCall.pc = "unlock"
  /\ mux' = FALSE
  /\ getCall' = [getCall EXCEPT !.pc = "lookups"]
  /\ op' = NoOp
  /\ UNCHANGED <<cacheVars, before, sweep, addCall>>

\* expire: c.mux.Lock()
SweepLock ==
  /\ sweep.pc = "lock"
  /\ ~mux
  /\ mux' = TRUE
  /\ sweep' = [sweep EXCEPT !.pc = "locked"]
  /\ op' = NoOp
  /\ UNCHANGED <<cacheVars, before, getCall, addCall>>

\* expire: the loop over c.data and total := len(c.data)
SweepBody ==
  /\ sweep.pc = "locked"
  /\ data' = ExpireLocked(data, sweep.start)
  /\ sweep' = [sweep EXCEPT !.pc = "unlock", !.total = Cardinality(DOMAIN data')]
  /\ op' = NoOp
  /\ UNCHANGED <<len, lookups, resolved, before, getCall, addCall, mux>>

\* expire: c.mux.Unlock()
SweepUnlock ==
  /\ sweep.pc = "unlock"
  /\ mux' = FALSE
  /\ sweep' = [sweep EXCEPT !.pc = "store"]
  /\ op' = NoOp
  /\ UNCHANGED <<cacheVars, before, getCall, addCall>>

\* what stays as it is at a step of a call on the cache
OfLock(A) == A /\ UNCHANGED <<clock, touchedAt, tally, packets, statsCall, snoopVars, getStats>>

\* the batch that the concurrent Get of SpecLock passes
LockConns == {<<[Source |-> 2, Dest |-> 1], [Source |-> 1, Dest |-> 2]>>}

NextLock ==
  \/ \E t \in ConcTranslations \ {NilT} : OfLock(AddLock(t, clock))
  \/ OfLock(AddBody)
  \/ OfLock(AddUnlock)
  \/ \E conns \in LockConns : OfLock(GetLock(conns, clock))
  \/ OfLock(GetFind)
  \/ OfLock(GetTouch)
  \/ OfLock(GetUnlock)
  \/ OfLock(GetAddLookups /\ UNCHANGED <<before, sweep, addCall, mux>>)
  \/ OfLock(GetAddResolved /\ UNCHANGED <<before, sweep, addCall, mux>>)
  \/ OfLock(Stats /\ UNCHANGED <<before, sweep, getCall, addCall, mux>>)
  \/ OfLock(SweepStart /\ UNCHANGED <<before, getCall, addCall, mux>>)
  \/ OfLock(SweepLock)
  \/ OfLock(SweepBody)
  \/ OfLock(SweepUnlock)
  \/ OfLock(SweepStore /\ UNCHANGED <<before, getCall, addCall, mux>>)
  \/ Tick /\ op' = NoOp /\ UNCHANGED <<cacheVars, histVars, concVars, snoopVars, fineVars>>

SpecLock == Init /\ [][NextLock]_vars

\* ------------------------------------------------------------------------
\* SpecStats: the packet telemetry of the snooper.  The pump and the stats
\* poller run, the counters of the capture source grow and one caller at a
\* time calls GetStats; every atomic operation on a counter is one step.
\* No shutdown is signalled, and every read of the pump gives a packet.

\* the order in which pollStats and GetStats go through the four counters
NextCounter(c) ==
  IF c = "polls" THEN "processed"
  ELSE IF c = "processed" THEN "captured"
  ELSE IF c = "captured" THEN "dropped"
  ELSE "last"

PollSample_SkipInterval(err) ==
  /\ poller.pc = "select"
  /\ IF err
     THEN poller' = [poller EXCEPT !.prev = source.counts, !.cur = source.counts]
     ELSE poller' = [poller EXCEPT !.pc = "polls", !.cur = source.counts]
  /\ op' = [NoOp EXCEPT !.kind = "sample", !.ret = ~err]
  /\ UNCHANGED <<cacheVars, sweep, exit, wg, closePc, pump, source, snoop, afterClose>>

\* pollStats: the ticker fires, s.source.Stats() and s.source.SocketStats()
\* are read; on an error the loop continues with nothing done
PollSample(err) ==
  /\ poller.pc = "select"
  /\ IF err
     THEN UNCHANGED poller
     ELSE poller' = [poller EXCEPT !.pc = "polls", !.cur = source.counts]
  /\ op' = [NoOp EXCEPT !.kind = "sample", !.ret = ~err]
  /\ UNCHANGED <<cacheVars, sweep, exit, wg, closePc, pump, source, snoop, afterClose>>

\* pollStats: atomic.AddInt64 of the delta of one counter; after the last of
\* the four the sample becomes the baseline (prevPolls, ..., prevDropped)
PollAdd ==
  /\ poller.pc \in DOMAIN NoCounts
  /\ LET c == poller.pc
     IN  /\ snoop' = [snoop EXCEPT !.counts[c] = @ + (poller.cur[c] - poller.prev[c])]
         /\ poller' = IF NextCounter(c) = "last"
                      THEN [poller EXCEPT !.pc = "select", !.prev = poller.cur]
                      ELSE [poller EXCEPT !.pc = NextCounter(c)]
  /\ op' = NoOp
  /\ UNCHANGED <<cacheVars, sweep, exit, wg, closePc, pump, source, afterClose>>

\* GetStats: s.cache.Stats() is called and makes its first swap
GetStatsCall ==
  /\ getStats.pc = "idle"
  /\ StatsSwapLookups
  /\ getStats' = [NoGetStats EXCEPT !.pc = "cache"]

\* GetStats: s.cache.Stats() makes its second swap
GetStatsCacheResolved ==
  /\ getStats.pc = "cache"
  /\ StatsSwapResolved
  /\ UNCHANGED getStats

\* GetStats: s.cache.Stats() reads the entry count and returns
GetStatsCacheLen ==
  /\ getStats.pc = "cache"
  /\ StatsLoadLen
  /\ getStats' = [getStats EXCEPT !.pc = "polls", !.cache = op'.stats]

GetStatsSwap_NoReset ==
  /\ getStats.pc \in DOMAIN NoCounts
  /\ LET c == getStats.pc
     IN  /\ getStats' = [getStats EXCEPT !.packets.counts[c] = snoop.counts[c],
                                         !.pc = IF NextCounter(c) = "last"
                                                THEN "decodingErrors"
                                                ELSE NextCounter(c)]
         /\ snoop' = snoop
  /\ op' = NoOp

\* GetStats: atomic.SwapInt64 of one of the four counters with 0
GetStatsSwap ==
  /\ getStats.pc \in DOMAIN NoCounts
  /\ LET c == getStats.pc
     IN  /\ getStats' = [getStats EXCEPT !.packets.counts[c] = snoop.counts[c],
                                         !.pc = IF NextCounter(c) = "last"
                                                THEN "decodingErrors"
                                                ELSE NextCounter(c)]
         /\ snoop' = [snoop EXCEPT !.counts[c] = 0]
  /\ op' = NoOp

\* GetStats: atomic.SwapInt64(&s.decodingErrors, 0) and return stats
GetStatsReturn ==
  /\ getStats.pc = "decodingErrors"
  /\ snoop' = [snoop EXCEPT !.decodingErrors = 0]
  /\ op' = [NoOp EXCEPT !.kind = "GetStats", !.stats = getStats.cache,
                        !.packets = [getStats.packets EXCEPT
                                       !.decodingErrors = snoop.decodingErrors]]
  /\ getStats' = NoGetStats

\* the sum of two records of packet telemetry
PlusPackets(a, b) ==
  [counts |-> Plus(a.counts, b.counts),
   decodingErrors |-> a.decodingErrors + b.decodingErrors]

\* what stays as it is at a step of the pump or of the stats poller
OfStats(A) ==
  A /\ UNCHANGED <<clock, before, touchedAt, tally, packets, concVars, fineVars>>

\* what stays as it is at a step of GetStats
OfGetStats(A) ==
  A /\ UNCHANGED <<clock, before, touchedAt, tally, sweep, getCall, mux, addCall,
                   exit, wg, closePc, pump, poller, source, afterClose>>

\* the packets counted so far, by the capture source or as decoding errors
Counted ==
  source.counts.polls + source.counts.processed
    + source.counts.captured + source.counts.dropped + packets.errors

NextStats ==
  \/ Traffic /\ Counted < MaxTraffic /\ op' = NoOp
       /\ UNCHANGED <<cacheVars, clock, histVars, concVars,
                      exit, wg, closePc, pump, poller, snoop, afterClose, fineVars>>
  \/ OfStats(PumpRead /\ pump'.read = "data")
  \/ OfStats(PumpSelect)
  \/ \E t \in Parsed :
       /\ t = NilT => Counted < MaxTraffic
       /\ PumpProcess(t)
       /\ packets' = IF t = NilT THEN [packets EXCEPT !.errors = @ + 1] ELSE packets
       /\ UNCHANGED <<clock, before, touchedAt, tally, concVars, fineVars>>
  \/ \E err \in BOOLEAN : OfStats(PollSample(err))
  \/ OfStats(PollAdd)
  \/ OfGetStats(GetStatsCall /\ UNCHANGED <<snoop, packets>>)
  \/ OfGetStats(GetStatsCacheResolved /\ UNCHANGED <<snoop, packets>>)
  \/ OfGetStats(GetStatsCacheLen /\ UNCHANGED <<snoop, packets>>)
  \/ OfGetStats(GetStatsSwap /\ UNCHANGED <<cacheVars, statsCall, packets>>)
  \/ OfGetStats(GetStatsReturn
                 /\ packets' = [packets EXCEPT !.reported = PlusPackets(@, op'.packets)]
                 /\ UNCHANGED <<cacheVars, statsCall>>)

SpecStats == Init /\ [][NextStats]_vars

\* ------------------------------------------------------------------------
\* SpecCacheClose: the cache on its own, with a writer, its sweep, the clock
\* and one call of Close.  The sweep ends what it has begun, and the ticker
\* leaves the select of the goroutine free between two sweeps.
NextCacheClose ==
  \/ \E t \in ConcTranslations :
       Add(t, clock) /\ UNCHANGED <<clock, histVars, concVars, snoopVars, fineVars>>
  \/ OfSweep(SweepStart)
  \/ OfSweep(SweepLocked)
  \/ OfSweep(SweepStore)
  \/ OfSnooper(CacheCloseCall)
  \/ OfSnooper(CloseCache)
  \/ Tick /\ op' = NoOp /\ UNCHANGED <<cacheVars, histVars, concVars, snoopVars, fineVars>>

SpecCacheClose ==
  /\ Init
  /\ [][NextCacheClose]_vars
  /\ WF_vars(OfSweep(SweepLocked))
  /\ WF_vars(OfSweep(SweepStore))
  /\ SF_vars(OfSnooper(CloseCache))

\* ------------------------------------------------------------------ claims
Keys(d) == DOMAIN d

Contains(names, n) == \E i \in 1..Len(names) : names[i] = n

\* what a lookup of address a in map d is expected to give
Stored(d, a) == IF a \in Keys(d) THEN [found |-> TRUE, names |-> d[a].names] ELSE NilNames

\* C1: Capacity bound. In every reachable state the number of distinct
\* address keys of the cache is at most its capacity (size).
C1_CapacityBound == Cardinality(Keys(data)) <= size

\* C2: Update at capacity. An Add made while the cache holds exactly size
\* addresses, for a translation whose addresses are all keys already, succeeds:
\* it returns true, each of these entries expires at now + ttl and lists the
\* translation's name, and the number of entries is unchanged.
C2_UpdateAtCapacity ==
  (/\ op.kind = "Add"
   /\ op.t # NilT
   /\ op.t.ips # {}
   /\ op.t.ips \subseteq Keys(before)
   /\ Cardinality(Keys(before)) = size)
  => /\ op.ret
     /\ \A a \in op.t.ips :
          /\ data[a].expiration = Unix(op.now + ttl)
          /\ Contains(data[a].names, op.t.name)
     /\ Cardinality(Keys(data)) = Cardinality(Keys(before))

\* C3: Add then Get. After an Add of translation (n, A) made below capacity,
\* a Get issued at once returns, for every address a of A, as source and as
\* destination, a name list that contains n.
C3_AddThenGet ==
  (/\ op.kind = "Add"
   /\ op.t # NilT
   /\ Cardinality(Keys(before)) < size)
  => \A a \in op.t.ips :
       LET pair == GetLocked(data, <<[Source |-> a, Dest |-> a]>>, clock).names[1]
       IN  /\ pair.Source.found /\ Contains(pair.Source.names, op.t.name)
           /\ pair.Dest.found /\ Contains(pair.Dest.names, op.t.name)

Ascending(names) == \A i \in 1..(Len(names) - 1) : names[i] < names[i + 1]

\* C4: Name-list invariant. Every entry's name list is in strictly ascending
\* order (sorted, no name twice), and adding again the translation that an Add
\* has just stored leaves the name list of every entry it touched as it is.
C4_NameListInvariant ==
  /\ \A a \in Keys(data) : Ascending(data[a].names)
  /\ (op.kind = "Add" /\ op.ret) =>
       \A a \in op.touched :
         AddLoop(data, op.t, Unix(clock + ttl))[a].names = data[a].names

\* an Add found its name already listed in an entry of two names
C4_Witness ==
  /\ op.kind = "Add"
  /\ op.ret
  /\ \E a \in op.touched \cap Keys(before) :
       /\ Len(before[a].names) >= 2
       /\ data[a].names = before[a].names

\* C5: Sliding expiration. After an Add that stored its translation, every
\* entry of the translation's addresses expires at now + ttl; after a Get,
\* every entry found for a source or destination address expires at now + ttl.
C5_SlidingExpiration ==
  /\ (op.kind = "Add" /\ op.ret) =>
       \A a \in op.t.ips :
         a \in Keys(data) /\ data[a].expiration = Unix(op.now + ttl)
  /\ op.kind = "Get" =>
       \A a \in AddrsOf(op.conns) \cap Keys(before) :
         a \in Keys(data) /\ data[a].expiration = Unix(op.now + ttl)

\* a Get has moved the expiration of an entry it found, next to one it did not find
C5_Witness ==
  /\ op.kind = "Get"
  /\ \E a \in AddrsOf(op.conns) \cap Keys(before) :
       before[a].expiration < data[a].expiration
  /\ \E a \in AddrsOf(op.conns) : a \notin Keys(before)

\* the sweep at op.now removed exactly the entries with expiration <= op.now - ttl
SweepExact ==
  \A a \in Keys(before) :
    /\ a \in Keys(data) <=> ~(before[a].expiration <= Unix(op.now - ttl))
    /\ a \in Keys(data) => data[a] = before[a]

C7_OrderPreservation ==
  op.kind = "Get" =>
    /\ Len(op.names) = Len(op.conns)
    /\ \A i \in 1..Len(op.conns) :
         /\ op.names[i].Source = Stored(before, op.conns[i].Source)
         /\ op.names[i].Dest = Stored(before, op.conns[i].Dest)

\* a Get of two connections returned two different pairs, with a hit and a miss
C7_Witness ==
  /\ op.kind = "Get"
  /\ Len(op.conns) = 2
  /\ op.names[1] # op.names[2]
  /\ \E i \in 1..2 : op.names[i].Source.found /\ ~op.names[i].Dest.found

\* C8: Add's result. Add returns false for a nil translation, for an empty
\* address set and when every address was rejected; it returns true only if
\* at least one entry was created or updated.
C8_AddResult ==
  op.kind = "Add" =>
    /\ op.t = NilT => ~op.ret
    /\ op.t.ips = {} => ~op.ret
    /\ op.touched = {} => ~op.ret
    /\ op.ret => \E a \in op.t.ips : a \in Keys(data) /\ a \in op.touched

\* C9: Entry-count gauge under concurrency. The entry count that Stats
\* returns equals the number of keys of the map whenever no sweep is in
\* progress (Add runs under the lock as one step).
C9_EntryCountGauge ==
  (op.kind = "Stats" /\ sweep.pc = "select")
  => op.stats.len = Cardinality(Keys(data))

\* C10: Shutdown ordering. Close signals shutdown before it waits, closes the
\* capture source only when both goroutines have ended, and closes the cache
\* after the source; nothing is read from the source, no statistics are taken
\* from it and the pump adds nothing to the cache once the source is closed.
C10_ShutdownOrdering ==
  /\ closePc \in {"wait", "source", "cache", "done"} => exit
  /\ source.closed => /\ exit
                      /\ wg = 0
                      /\ pump.pc = "done"
                      /\ poller.pc = "done"
  /\ sweep.pc = "done" => source.closed
  /\ afterClose = {}

\* Close has returned after the pump had stored a translation
C10_Witness ==
  /\ closePc = "done"
  /\ source.closed
  /\ sweep.pc = "done"
  /\ Keys(data) # {}

\* C11: Shutdown liveness. Once Close has signalled shutdown, and every read
\* of the capture source returns, the pump leaves its loop at its next
\* select, having finished at most one read, and never reads again; the pump
\* and the stats poller end and Close returns, whatever the two were doing
\* when the signal was sent.
C11_ShutdownLiveness ==
  /\ exit ~> (pump.pc = "done" /\ poller.pc = "done" /\ closePc = "done")
  /\ [][(exit /\ pump.pc = "select" /\ pump' # pump) => pump'.pc = "exit"]_vars
  /\ [][pump.pc \in {"exit", "done"} => pump'.pc \in {"exit", "done"}]_vars

\* Close has returned and both goroutines have ended; the last read of the
\* pump had given a packet, and the pump had stored a translation
C11_Witness ==
  /\ closePc = "done"
  /\ pump.pc = "done"
  /\ poller.pc = "done"
  /\ pump.read = "data"
  /\ Keys(data) # {}

\* C12: Cache Close stops the sweep. A call of the cache's Close returns in
\* the end, also when a sweep is running at the time of the call; once it has
\* returned the goroutine of the sweep has ended, and no entry is removed
\* from the map again.
C12_CloseStopsSweep ==
  /\ (closePc = "cache") ~> (closePc = "done")
  /\ [](closePc = "done" => sweep.pc = "done")
  /\ [][closePc = "done" => Keys(data) \subseteq Keys(data')]_vars

\* Close has returned, and the map holds an entry that a sweep would remove
C12_Witness ==
  /\ closePc = "done"
  /\ sweep.pc = "done"
  /\ \E a \in Keys(data) : Expired(data[a], Unix(clock - ttl))

\* C13: Read errors are never fatal to the pump. Whatever a read gives, the
\* pump goes on: after EAGAIN it reads again at once, after any other error
\* it sleeps and then reads again, after a packet it processes it and reads
\* again; it leaves its loop only at a select that finds the shutdown signal.
C13_ReadErrorsNotFatal ==
  /\ [][pump' # pump =>
          /\ (pump.pc = "select" /\ ~exit /\ pump.read = "eagain") => pump'.pc = "read"
          /\ (pump.pc = "select" /\ ~exit /\ pump.read = "err") => pump'.pc = "sleep"
          /\ (pump.pc = "select" /\ ~exit /\ pump.read = "data") => pump'.pc = "process"
          /\ pump.pc \in {"sleep", "process"} => pump'.pc = "read"
          /\ pump'.pc = "exit" => (pump.pc = "select" /\ exit)]_vars
  /\ [](pump.pc \in {"exit", "done"} => exit)
  /\ (pump.pc \in {"select", "sleep", "process"}) ~> (pump.pc \in {"read", "exit"})

\* the pump is at its read again after a read that failed, and no shutdown
\* has been signalled
C13_Witness ==
  /\ pump.pc = "read"
  /\ pump.read = "err"
  /\ ~exit

\* the four counters, in the order of NextCounter
Rank(c) ==
  IF c = "polls" THEN 1 ELSE IF c = "processed" THEN 2 ELSE IF c = "captured" THEN 3 ELSE 4

\* what pollStats has added to counter c of the snooper since the start
Added(c) ==
  IF poller.pc \in DOMAIN NoCounts /\ Rank(c) < Rank(poller.pc)
  THEN poller.cur[c]
  ELSE poller.prev[c]

\* what GetStats has given out of counter c, the values that a call in
\* progress has taken already included
GivenOut(c) == packets.reported.counts[c] + getStats.packets.counts[c]

\* C14: Stats-poller conservation. For each of polls, processed, captured and
\* dropped, whenever the poller is between two samples, what GetStats has
\* given out plus what is pending in the snooper equals the counter of the
\* source at the last successful sample; a failed sample changes neither the
\* pending counters nor the baseline.
C14_PollerConservation ==
  /\ [](poller.pc = "select" =>
          \A c \in DOMAIN NoCounts : GivenOut(c) + snoop.counts[c] = poller.prev[c])
  /\ [][(op'.kind = "sample" /\ ~op'.ret) => (snoop' = snoop /\ poller' = poller)]_vars

\* a sample has just failed while the source was ahead of the baseline, and
\* GetStats had given out something before
C14_Witness ==
  /\ op.kind = "sample"
  /\ ~op.ret
  /\ source.counts # poller.prev
  /\ \E c \in DOMAIN NoCounts : packets.reported.counts[c] > 0

\* C15: GetStats snapshot-and-reset. Under every interleaving of GetStats
\* with the pump and the stats poller, each increment of polls, processed,
\* captured, dropped and decoding errors is either pending in the snooper or
\* given out by exactly one GetStats; GetStats leaves each counter at zero
\* when it takes it, and leaves the entry count of the cache as it is.
C15_SnapshotAndReset ==
  /\ [](\A c \in DOMAIN NoCounts : GivenOut(c) + snoop.counts[c] = Added(c))
  /\ [](packets.reported.decodingErrors + snoop.decodingErrors = packets.errors)
  /\ [][(getStats.pc \in DOMAIN NoCounts /\ getStats' # getStats)
          => /\ snoop'.counts[getStats.pc] = 0
             /\ getStats'.packets.counts[getStats.pc] = snoop.counts[getStats.pc]]_vars
  /\ [][(getStats.pc = "decodingErrors" /\ getStats' # getStats)
          => /\ snoop'.decodingErrors = 0
             /\ op'.packets.decodingErrors = snoop.decodingErrors
             /\ op'.packets.counts = getStats.packets.counts
             /\ op'.stats = getStats.cache]_vars
  /\ [][getStats' # getStats => len' = len]_vars

\* a GetStats has returned a counter of the poller, a decoding error and a
\* cache that is not empty, while the poller was in the middle of its adds
C15_Witness ==
  /\ op.kind = "GetStats"
  /\ op.packets.decodingErrors > 0
  /\ \E c \in DOMAIN NoCounts : op.packets.counts[c] > 0
  /\ op.stats.len > 0
  /\ poller.pc # "select"

\* C16: Cache Stats consume-on-read. Stats returns the lookups and the
\* resolved count that Get has accumulated since the Stats before and leaves
\* both at zero: the lookups of all snapshots plus the pending lookups equal
\* the number of connections passed to Get, and likewise the resolved counts
\* and the destination hits; the entry count is returned and not reset.
C16_StatsConsumeOnRead ==
  /\ tally.lookups + lookups = tally.conns
  /\ tally.resolved + resolved = tally.hits
  /\ op.kind = "Stats" =>
       /\ lookups = 0
       /\ resolved = 0
       /\ tally.lookups = tally.conns
       /\ op.stats.len = len
       /\ len = Cardinality(Keys(before))
       /\ data = before

\* the second Stats that returned lookups, with a resolved destination and a
\* cache that is not empty
C16_Witness ==
  /\ op.kind = "Stats"
  /\ op.stats.lookups > 0
  /\ op.stats.resolved > 0
  /\ tally.lookups > op.stats.lookups
  /\ op.stats.len > 0

\* a call is between its c.mux.Lock() and its c.mux.Unlock()
InGet == getCall.pc \in {"find", "touch", "unlock"}

InAdd == addCall.pc \in {"locked", "unlock"}

InSweep == sweep.pc \in {"locked", "unlock"}

\* C17: Serialization through one lock. Add, Get and the sweep are never
\* inside their locked sections together; while a Get is inside its own, no
\* step of another call changes the map, an entry that the Get has found is
\* still a key when the Get writes its expiration, and at the end of the
\* batch the map, the names and the resolved count are those of the whole
\* batch run at once on the map as it was when the lock was taken.
C17_Serialization ==
  /\ [](~(InGet /\ InAdd) /\ ~(InGet /\ InSweep) /\ ~(InAdd /\ InSweep))
  /\ [](mux <=> (InGet \/ InAdd \/ InSweep))
  /\ [][(InGet /\ getCall' = getCall) => data' = data]_vars
  /\ [](getCall.pc = "touch" => AddrAt(getCall.conns, getCall.k) \in Keys(data))
  /\ [](getCall.pc = "unlock" =>
          LET r == GetLocked(before, getCall.conns, getCall.now)
          IN  /\ data = r.data
              /\ getCall.names = r.names
              /\ getCall.resolved = r.resolved)

\* a Get has found an entry and is about to write its expiration, while a
\* sweep that would remove this entry waits for the lock
C17_Witness ==
  /\ getCall.pc = "touch"
  /\ sweep.pc = "lock"
  /\ LET ip == AddrAt(getCall.conns, getCall.k)
     IN  ip \in Keys(data) /\ Expired(data[ip], Unix(sweep.start - ttl))

\* C18: Snapshot consistency of the cache telemetry. In every snapshot that
\* Stats returns, under any interleaving with concurrent Get calls, the
\* resolved count is at most the lookup count.
C18_SnapshotConsistency ==
  op.kind = "Stats" => op.stats.resolved <= op.stats.lookups

\* C19: Telemetry counting rule of Get. A Get over N connections adds N to
\* the lookup counter and adds to the resolved counter the number of its
\* connections whose destination is a key of the cache; a hit on a source
\* address adds nothing to the resolved counter, and a Get over the empty
\* list changes neither counter.
C19_GetCounting ==
  [][(op = NoOp /\ op'.kind = "Get")
      => /\ lookups' = lookups + Len(op'.conns)
         /\ resolved' = resolved + DestHits(data, op'.conns)]_vars

\* a Get over two connections has counted two lookups and one resolution,
\* and one of the connections had its source in the cache but not its
\* destination
C19_Witness ==
  /\ op.kind = "Get"
  /\ Len(op.conns) = 2
  /\ lookups = 2
  /\ resolved = 1
  /\ \E i \in 1..2 :
       op.conns[i].Source \in Keys(before) /\ op.conns[i].Dest \notin Keys(before)

\* C20: Frame of Get and sweep. A Get leaves the set of keys and every name
\* list as they are, and leaves the entries of the addresses it was not asked
\* about untouched; a sweep adds no key and leaves every entry that it keeps
\* as it is, names and expiration.
C20_Frame ==
  /\ op.kind = "Get" =>
       /\ Keys(data) = Keys(before)
       /\ \A a \in Keys(before) : data[a].names = before[a].names
       /\ \A a \in Keys(before) \ AddrsOf(op.conns) : data[a] = before[a]
  /\ op.kind = "expire" =>
       /\ Keys(data) \subseteq Keys(before)
       /\ \A a \in Keys(data) : data[a] = before[a]

\* a Get has moved the expiration of an entry of two names, next to an entry
\* that it was not asked about
C20_Witness ==
  /\ op.kind = "Get"
  /\ \E a \in AddrsOf(op.conns) \cap Keys(before) :
       /\ Len(before[a].names) = 2
       /\ data[a].expiration # before[a].expiration
  /\ Keys(before) \ AddrsOf(op.conns) # {}

====
